---- MODULE Spec2Model ----
(***************************************************************************)
(* A model of karton's backend layer (src/karton/core/backend.py): the     *)
(* Redis-backed task store, the routed/unrouted queues, the bind registry  *)
(* and the per-consumer assignment sets.                                   *)
(*                                                                         *)
(* Redis is modelled by its data: lists (keyed by the queue name strings   *)
(* the code builds), string keys (tasks), one hash (binds) and sets        *)
(* (assigned).  One Redis command, or one MULTI/EXEC transaction, is one   *)
(* atomic step; a method that issues two commands is two steps.            *)
(***************************************************************************)
EXTENDS Integers, Sequences, FiniteSets, TLC

(***************************************************************************)
(* Bounds of the model.                                                    *)
(***************************************************************************)
\* Most pushes (rpush) made in one behaviour.
MaxPush == 2
\* Most pushes to the unrouted queue made in one behaviour.
MaxUnrouted == 3
\* Most register_bind calls made in one behaviour.
MaxRegister == 3
\* Largest max_count handed to consume_queues_batch.
MaxBatch == 2
\* Most increment calls made in one behaviour.
MaxCalls == 3
\* Largest amount of one increment.
MaxAmount == 2
\* Most identities handed to one batch increment.
MaxList == 2
\* Latest reading of time.time() in one behaviour.
MaxTime == 2
\* Most records published in one behaviour.
MaxPublish == 2
\* Longest task list handed to unassign_tasks_from_consumers.
MaxBulk == 3
\* Largest chunk_size handed to unassign_tasks_from_consumers.
MaxChunk == 2

(***************************************************************************)
(* Values.                                                                 *)
(***************************************************************************)
\* Python's None, and a present value: an optional is a sequence of length <= 1.
None == <<>>
Some(v) == <<v>>

\* Client processes (producers, consumers, karton-system) sharing the store.
Procs == {"p1", "p2"}

\* Karton service identities.
Identities == {"consumer-A", "consumer-B"}

\* Identities of the bind registry: a service and its ".test" twin.
BindIdentities == {"consumer-A", "consumer-A.test"}

KARTON_TASKS_QUEUE == "karton.tasks"

\* KartonMetrics: two of the five kinds.
TASK_PRODUCED == "karton.metrics.produced"
TASK_CONSUMED == "karton.metrics.consumed"
KartonMetrics == {TASK_PRODUCED, TASK_CONSUMED}

\* TaskPriority enum values (karton/core/task.py), as the queue names spell them.
HIGH == "high"
NORMAL == "normal"
LOW == "low"
TaskPriority == {HIGH, NORMAL, LOW}

\* The tasks producers hand to the backend: fquid = <root_uid>:<uid>, and the
\* priority the task object carries.
RoutedTasks ==
    { [fquid |-> "r1:t1", priority |-> HIGH],
      [fquid |-> "r1:t2", priority |-> NORMAL],
      [fquid |-> "r2:t3", priority |-> LOW] }

Fquids == { t.fquid : t \in RoutedTasks }

(***************************************************************************)
(* Queue names.                                                            *)
(***************************************************************************)
\* A plausible slip: the identity left out of the routed queue name.
get_queue_name_shared(identity, priority) ==
    "karton.queue." \o priority \o ":"

get_queue_name(identity, priority) ==
    "karton.queue." \o priority \o ":" \o identity

\* A plausible slip: the 2.x queue consulted after the priority queues.
get_queue_names_legacy_last(identity) ==
    << get_queue_name(identity, HIGH),
       get_queue_name(identity, NORMAL),
       get_queue_name(identity, LOW),
       identity >>

\* A plausible slip: the priorities listed from the lowest up.
get_queue_names_ascending(identity) ==
    << identity,
       get_queue_name(identity, LOW),
       get_queue_name(identity, NORMAL),
       get_queue_name(identity, HIGH) >>

get_queue_names(identity) ==
    << identity,  \* Backwards compatibility (2.x.x)
       get_queue_name(identity, HIGH),
       get_queue_name(identity, NORMAL),
       get_queue_name(identity, LOW) >>

Range(s) == { s[i] : i \in DOMAIN s }

\* Every Redis list key the model touches.
ListKeys ==
    {KARTON_TASKS_QUEUE} \cup UNION { Range(get_queue_names(i)) : i \in Identities }

(***************************************************************************)
(* Redis list commands.                                                    *)
(***************************************************************************)
\* A plausible slip: LPUSH where RPUSH is meant.
LPUSH(l, v) == <<v>> \o l

RPUSH(l, v) == Append(l, v)

\* Redis turns a negative index into an offset from the end of the list.
FromEnd(i, n) == IF i < 0 THEN n + i ELSE i

\* LRANGE key start stop: both ends inclusive, zero based, clamped to the list.
LRANGE(l, start, stop) ==
    LET n == Len(l)
        s0 == FromEnd(start, n)
        s == IF s0 < 0 THEN 0 ELSE s0
        e0 == FromEnd(stop, n)
        e == IF e0 >= n THEN n - 1 ELSE e0
    IN  IF s > e \/ s >= n THEN <<>> ELSE SubSeq(l, s + 1, e + 1)

\* LTRIM key start stop: the list becomes what LRANGE would return.
LTRIM(l, start, stop) ==
    LET n == Len(l)
        s0 == FromEnd(start, n)
        s == IF s0 < 0 THEN 0 ELSE s0
        e0 == FromEnd(stop, n)
        e == IF e0 >= n THEN n - 1 ELSE e0
    IN  IF s > e \/ s >= n THEN <<>> ELSE SubSeq(l, s + 1, e + 1)

\* BLPOP key [key ...]: the keys that hold an element, in the order given.
NonEmptyAt(ls, keys) == { j \in DOMAIN keys : ls[keys[j]] # <<>> }

FirstNonEmpty(ls, keys) ==
    CHOOSE j \in NonEmptyAt(ls, keys) : \A k \in NonEmptyAt(ls, keys) : j <= k

(***************************************************************************)
(* State.                                                                  *)
(***************************************************************************)
VARIABLES
    lists,   \* Redis lists: queue name -> sequence of queue entries
    tasks,   \* Redis keys karton.task:<fquid>: fquid -> stored task, or None
    pc,      \* each process's position in the method it is running
    loc,     \* each process's local variables of that method
    clock,   \* history: the number of pushes made so far
    seen,    \* history: per unrouted entry, how many batch calls returned it
    binds,   \* Redis hash karton.binds: identity -> serialized bind, or None
    written, \* history: the binds handed to register_bind, in order
    priorOf, \* history: per register_bind call, the write it got back
    dropped, \* history: the writes removed by unregister_bind
    codec,   \* a bind on its way through serialize_bind / unserialize_bind
    assigned,\* Redis sets karton.assigned:<identity>: identity -> set of fquids
    lastOp,  \* history: per assignment set, the last calls that touched it
    metrics, \* Redis hashes karton.metrics.<kind>: identity -> counter, or None
    issued,  \* history: the counters at the start and the amounts added since
    obj,     \* the Task object each process holds in memory
    now,     \* time.time()
    subs,    \* Redis pattern subscriptions: process -> pattern, or None
    inbox,   \* the messages Redis has sent to each subscriber, still unread
    sent,    \* history: the records published, in order
    blocked  \* the processes Redis holds blocked in BLPOP, the oldest first

queueVars == <<lists, tasks, clock, seen, blocked>>

bindVars == <<binds, written, priorOf, dropped>>

assignVars == <<assigned, lastOp>>

metricVars == <<metrics, issued>>

statusVars == <<obj, now>>

logVars == <<subs, inbox, sent>>

\* What the queue and task methods leave alone.
restOfStore == <<bindVars, codec, assignVars, metricVars, statusVars, logVars>>

notQueues == <<blocked, restOfStore>>

\* What the bind registry's methods leave alone.
notBinds == <<queueVars, codec, assignVars, metricVars, statusVars, logVars>>

\* What the assignment tracker's methods leave alone.
notAssigned == <<queueVars, bindVars, codec, metricVars, statusVars, logVars>>

\* What the metrics counters' methods leave alone.
notMetrics == <<queueVars, bindVars, codec, assignVars, statusVars, logVars>>

\* What set_task_status leaves alone.
notStatus == <<lists, clock, seen, blocked, bindVars, codec, assignVars, metricVars, logVars>>

\* What the log channel's methods leave alone.
notLog == <<queueVars, bindVars, codec, assignVars, metricVars, statusVars>>

vars == <<queueVars, pc, loc, bindVars, codec, assignVars, metricVars, statusVars, logVars>>

\* A queue entry is the task's fquid.  The model tags each entry with history
\* the code never reads: n, the number of the push that made it; to, the
\* identity it was produced for; via, the lane it was produced into.
Entry(t, n, to, via) == [fquid |-> t.fquid, n |-> n, to |-> to, via |-> via]

\* The 2.x entries a store may still hold in a bare-identity queue when the
\* backend connects (no method of this backend pushes there).
LegacyEntry(i) ==
    Entry([fquid |-> "r1:t2"], 0, i, "legacy")

\* An entry waiting in the unrouted queue for karton-system.
UnroutedEntry ==
    Entry([fquid |-> "r1:t1"], 0, "unrouted", "unrouted")

Idle == [op |-> "idle"]

\* Parts of the store a run does not touch, and processes at rest.
NoQueues ==
    /\ lists = [k \in ListKeys |-> <<>>]
    /\ tasks = [f \in Fquids |-> None]
    /\ clock = 0
    /\ seen = <<>>
    /\ blocked = <<>>

NoBinds ==
    /\ binds = [i \in BindIdentities |-> None]
    /\ written = <<>>
    /\ priorOf = <<>>
    /\ dropped = {}

NoCodec == codec = [stage |-> "none"]

NoAssigned ==
    /\ assigned = [i \in Identities |-> {}]
    /\ lastOp = [i \in Identities |-> [op |-> "none"]]

\* The history of the counters of a store that starts as h.
NoneIssued(h) ==
    [calls |-> 0, start |-> h, forms |-> {},
     sum |-> [m \in KartonMetrics |-> [i \in Identities |-> 0]]]

NoMetrics ==
    /\ metrics = [m \in KartonMetrics |-> [i \in Identities |-> None]]
    /\ issued = NoneIssued(metrics)

NoStatus ==
    /\ obj = [p \in Procs |-> None]
    /\ now = 0

NoLog ==
    /\ subs = [p \in Procs |-> None]
    /\ inbox = [p \in Procs |-> <<>>]
    /\ sent = <<>>

AtRest ==
    /\ pc = [p \in Procs |-> "idle"]
    /\ loc = [p \in Procs |-> Idle]

\* The tasks a consumer has checked out when the run starts.
CheckedOut(i) == IF i = "consumer-A" THEN {"r1:t1"} ELSE {}

\* A consumer's store: some identities still hold a 2.x entry, the unrouted
\* queue holds an entry, every task of the pool is registered, one of them
\* is checked out.
InitRoute ==
    /\ \E old \in SUBSET Identities :
         lists = [k \in ListKeys |->
                    IF k \in old THEN <<LegacyEntry(k)>>
                    ELSE IF k = KARTON_TASKS_QUEUE THEN <<UnroutedEntry>>
                    ELSE <<>>]
    /\ tasks = [f \in Fquids |-> Some(CHOOSE t \in RoutedTasks : t.fquid = f)]
    /\ clock = 0
    /\ seen = <<>>
    /\ blocked = <<>>
    /\ assigned = [i \in Identities |-> CheckedOut(i)]
    /\ lastOp = [i \in Identities |-> [op |-> "none"]]
    /\ AtRest /\ NoBinds /\ NoCodec /\ NoMetrics /\ NoStatus /\ NoLog

\* karton-system's store: every queue empty.
InitBatch ==
    /\ NoQueues /\ AtRest /\ NoBinds /\ NoCodec /\ NoAssigned
    /\ NoMetrics /\ NoStatus /\ NoLog

(***************************************************************************)
(* TaskStore.                                                              *)
(***************************************************************************)
\* A plausible slip: the record unserialized without the test for a missing
\* key, which raises on the None that GET returned.
get_task_unchecked(store, task_fquid) ==
    IF store[task_fquid] = None
    THEN Some([raises |-> "TypeError"])
    ELSE store[task_fquid]

\* get_task: the stored record, or None when the key holds nothing.
get_task(store, task_fquid) ==
    IF store[task_fquid] = None THEN None ELSE store[task_fquid]

register_task(p, task) ==
    /\ pc[p] = "idle"
    /\ tasks' = [tasks EXCEPT ![task.fquid] = Some(task)]
    /\ UNCHANGED <<lists, pc, loc, clock, seen, notQueues>>

\* A plausible slip: the references to the task dropped with its record.
delete_task_unrouting(p, task) ==
    /\ pc[p] = "idle"
    /\ tasks' = [tasks EXCEPT ![task.fquid] = None]
    /\ lists' = [k \in ListKeys |->
                    SelectSeq(lists[k], LAMBDA e : e.fquid # task.fquid)]
    /\ UNCHANGED <<pc, loc, clock, seen, notQueues>>

\* delete_task: DEL of the task's key.
delete_task(p, task) ==
    /\ pc[p] = "idle"
    /\ tasks' = [tasks EXCEPT ![task.fquid] = None]
    /\ UNCHANGED <<lists, pc, loc, clock, seen, notQueues>>

(***************************************************************************)
(* QueueRouter.                                                            *)
(***************************************************************************)
produce_unrouted_task(p, task) ==
    /\ pc[p] = "idle"
    /\ clock < MaxUnrouted
    /\ clock' = clock + 1
    /\ lists' = [lists EXCEPT ![KARTON_TASKS_QUEUE] =
                    RPUSH(@, Entry(task, clock', "unrouted", "unrouted"))]
    /\ seen' = Append(seen, 0)
    /\ UNCHANGED <<tasks, pc, loc, notQueues>>

\* The processes blocked in a BLPOP that names the queue, the oldest first.
BlockedOn(queue) ==
    SelectSeq(blocked, LAMBDA w : queue \in Range(get_queue_names(loc[w].identity)))

Without(s, p) == SelectSeq(s, LAMBDA w : w # p)

\* A plausible slip: a push that wakes no blocked client.
produce_routed_task_unserved(p, identity, task) ==
    /\ pc[p] = "idle"
    /\ clock < MaxPush
    /\ clock' = clock + 1
    /\ lists' = [lists EXCEPT ![get_queue_name(identity, task.priority)] =
                    RPUSH(@, Entry(task, clock', identity, task.priority))]
    /\ seen' = Append(seen, 0)
    /\ UNCHANGED <<tasks, pc, loc, notQueues>>

\* produce_routed_task: RPUSH.  When clients are blocked in a BLPOP on the
\* queue, Redis hands the entry to the one that has waited longest.
produce_routed_task(p, identity, task) ==
    /\ pc[p] = "idle"
    /\ clock < MaxPush
    /\ clock' = clock + 1
    /\ LET queue == get_queue_name(identity, task.priority)
           entry == Entry(task, clock', identity, task.priority)
       IN  IF BlockedOn(queue) = <<>>
           THEN /\ lists' = [lists EXCEPT ![queue] = RPUSH(@, entry)]
                /\ UNCHANGED <<pc, loc, blocked>>
           ELSE LET w == Head(BlockedOn(queue))
                IN  /\ pc' = [pc EXCEPT ![w] = "get_task"]
                    /\ loc' = [loc EXCEPT ![w].item =
                                 Some([queue |-> queue, data |-> entry])]
                    /\ blocked' = Without(blocked, w)
                    /\ UNCHANGED lists
    /\ seen' = Append(seen, 0)
    /\ UNCHANGED <<tasks, restOfStore>>

\* A plausible slip: the head read (LINDEX) and not popped.
consume_queues_peeking(ls, queues) ==
    IF NonEmptyAt(ls, queues) = {}
    THEN [item |-> None, lists |-> ls]
    ELSE LET q == queues[FirstNonEmpty(ls, queues)]
         IN  [item |-> Some([queue |-> q, data |-> Head(ls[q])]),
              lists |-> ls]

\* consume_queues: BLPOP over the queues, in the order given.  With every
\* queue empty the call blocks, and returns None once the timeout elapses.
consume_queues(ls, queues) ==
    IF NonEmptyAt(ls, queues) = {}
    THEN [item |-> None, lists |-> ls]
    ELSE LET q == queues[FirstNonEmpty(ls, queues)]
         IN  [item |-> Some([queue |-> q, data |-> Head(ls[q])]),
              lists |-> [ls EXCEPT ![q] = Tail(@)]]

\* consume_routed_task, first command: the blocking pop (lines 566-571).
consume_routed_task(p, identity) ==
    /\ pc[p] = "idle"
    /\ LET r == consume_queues(lists, get_queue_names(identity))
       IN  /\ lists' = r.lists
           /\ IF r.item = None
              THEN /\ pc' = [pc EXCEPT ![p] = "return"]
                   /\ loc' = [loc EXCEPT ![p] =
                                [op |-> "consume_routed_task",
                                 identity |-> identity,
                                 item |-> None, value |-> None]]
              ELSE /\ pc' = [pc EXCEPT ![p] = "get_task"]
                   /\ loc' = [loc EXCEPT ![p] =
                                [op |-> "consume_routed_task",
                                 identity |-> identity,
                                 item |-> r.item, value |-> None]]
    /\ UNCHANGED <<tasks, clock, seen, notQueues>>

\* consume_routed_task, first command, with the wait shown: with every
\* queue empty the client stays blocked in BLPOP (lines 566-569).
consume_routed_task_blocking(p, identity) ==
    /\ pc[p] = "idle"
    /\ LET r == consume_queues(lists, get_queue_names(identity))
       IN  /\ lists' = r.lists
           /\ loc' = [loc EXCEPT ![p] =
                        [op |-> "consume_routed_task", identity |-> identity,
                         item |-> r.item, value |-> None,
                         waited |-> r.item = None]]
           /\ IF r.item = None
              THEN /\ pc' = [pc EXCEPT ![p] = "blpop"]
                   /\ blocked' = Append(blocked, p)
              ELSE /\ pc' = [pc EXCEPT ![p] = "get_task"]
                   /\ UNCHANGED blocked
    /\ UNCHANGED <<tasks, clock, seen, restOfStore>>

\* The timeout of a blocked BLPOP elapses: the call returns None
\* (lines 570-571).
blpop_timeout(p) ==
    /\ pc[p] = "blpop"
    /\ pc' = [pc EXCEPT ![p] = "return"]
    /\ blocked' = Without(blocked, p)
    /\ UNCHANGED <<lists, tasks, loc, clock, seen, restOfStore>>

\* consume_routed_task, second command: the popped reference resolved
\* (lines 572-573).
consume_routed_get(p) ==
    /\ pc[p] = "get_task"
    /\ pc' = [pc EXCEPT ![p] = "return"]
    /\ loc' = [loc EXCEPT ![p].value = get_task(tasks, loc[p].item[1].data.fquid)]
    /\ UNCHANGED <<lists, tasks, clock, seen, notQueues>>

\* The history of a batch call: each returned entry counted, to at most 2.
Counted(s, batch) ==
    [n \in DOMAIN s |->
        IF \E j \in DOMAIN batch : batch[j].n = n /\ s[n] < 2
        THEN s[n] + 1 ELSE s[n]]

\* consume_queues_batch: LRANGE and LTRIM in one MULTI/EXEC transaction.
consume_queues_batch(p, queue, max_count) ==
    /\ pc[p] = "idle"
    /\ LET batch == LRANGE(lists[queue], 0, max_count - 1)
       IN  /\ lists' = [lists EXCEPT ![queue] = LTRIM(@, max_count, -1)]
           /\ pc' = [pc EXCEPT ![p] = "return"]
           /\ loc' = [loc EXCEPT ![p] =
                        [op |-> "consume_queues_batch", queue |-> queue,
                         max_count |-> max_count, value |-> batch]]
           /\ seen' = Counted(seen, batch)
    /\ UNCHANGED <<tasks, clock, notQueues>>

\* The method hands its result to the caller.
Return(p) ==
    /\ pc[p] = "return"
    /\ pc' = [pc EXCEPT ![p] = "idle"]
    /\ loc' = [loc EXCEPT ![p] = Idle]
    /\ UNCHANGED <<lists, tasks, clock, seen, notQueues>>

\* The tasks karton-system finds in the unrouted queue.
UnroutedTasks == { t \in RoutedTasks : t.priority # LOW }

NextRoute ==
    \E p \in Procs :
        \/ \E t \in RoutedTasks : register_task(p, t)
        \/ \E t \in RoutedTasks : delete_task(p, t)
        \/ \E i \in Identities, t \in RoutedTasks : produce_routed_task(p, i, t)
        \/ \E i \in Identities : consume_routed_task(p, i)
        \/ consume_routed_get(p)
        \/ Return(p)

SpecRoute == InitRoute /\ [][NextRoute]_vars

NextBatch ==
    \E p \in Procs :
        \/ \E t \in UnroutedTasks : produce_unrouted_task(p, t)
        \/ \E n \in 0..MaxBatch : consume_queues_batch(p, KARTON_TASKS_QUEUE, n)
        \/ Return(p)

SpecBatch == InitBatch /\ [][NextBatch]_vars

\* A store whose queues are empty, with every task of the pool registered.
InitBlocking ==
    /\ lists = [k \in ListKeys |-> <<>>]
    /\ tasks = [f \in Fquids |-> Some(CHOOSE t \in RoutedTasks : t.fquid = f)]
    /\ clock = 0
    /\ seen = <<>>
    /\ blocked = <<>>
    /\ AtRest /\ NoBinds /\ NoCodec /\ NoAssigned /\ NoMetrics /\ NoStatus /\ NoLog

NextBlocking ==
    \E p \in Procs :
        \/ \E i \in Identities, t \in RoutedTasks : produce_routed_task(p, i, t)
        \/ \E i \in Identities : consume_routed_task_blocking(p, i)
        \/ blpop_timeout(p)
        \/ consume_routed_get(p)
        \/ Return(p)

\* The timeout of a BLPOP is positive and finite, and a client that has its
\* answer goes on.
FairBlocking ==
    \A p \in Procs :
        /\ WF_vars(blpop_timeout(p))
        /\ WF_vars(consume_routed_get(p))
        /\ WF_vars(Return(p))

SpecBlocking == InitBlocking /\ [][NextBlocking]_vars /\ FairBlocking

(***************************************************************************)
(* JSON, as json.dumps writes it and json.loads reads it.                  *)
(***************************************************************************)
JNull == [j |-> "null"]
JStr(x) == [j |-> "string", v |-> x]
JBool(x) == [j |-> "bool", b |-> x]
JArr(x) == [j |-> "array", items |-> x]
JObj(x) == [j |-> "object", members |-> x]

\* An optional string (None or a str) to JSON and back.
dumps_opt(o) == IF o = None THEN JNull ELSE JStr(o[1])
loads_opt(x) == IF x.j = "null" THEN None ELSE Some(x.v)

\* str.endswith
endswith(str, suffix) ==
    /\ Len(str) >= Len(suffix)
    /\ SubSeq(str, Len(str) - Len(suffix) + 1, Len(str)) = suffix

(***************************************************************************)
(* BindRegistry.                                                           *)
(***************************************************************************)
KartonBind(identity, info, version, persistent, filters, service_version) ==
    [identity |-> identity, info |-> info, version |-> version,
     persistent |-> persistent, filters |-> filters,
     service_version |-> service_version]

\* A plausible slip: the serializer of the releases before service_version.
serialize_bind_4x(bind) ==
    JObj([info |-> dumps_opt(bind.info),
          version |-> JStr(bind.version),
          filters |-> JArr(bind.filters),
          persistent |-> JBool(bind.persistent)])

serialize_bind(bind) ==
    JObj([info |-> dumps_opt(bind.info),
          version |-> JStr(bind.version),
          filters |-> JArr(bind.filters),
          persistent |-> JBool(bind.persistent),
          service_version |-> dumps_opt(bind.service_version)])

\* dict.get("service_version")
get_service_version(bind) ==
    IF "service_version" \in DOMAIN bind
    THEN loads_opt(bind.service_version) ELSE None

\* A plausible slip: every 2.x bind taken to be persistent.
unserialize_bind_persistent(identity, bind_data) ==
    IF bind_data.j = "array"
    THEN KartonBind(identity, None, "2.x.x", TRUE, bind_data.items, None)
    ELSE LET bind == bind_data.members
         IN  KartonBind(identity, loads_opt(bind.info), bind.version.v,
                        bind.persistent.b, bind.filters.items,
                        get_service_version(bind))

unserialize_bind(identity, bind_data) ==
    IF bind_data.j = "array"
    THEN \* Backwards compatibility (v2.x.x)
         KartonBind(identity, None, "2.x.x", ~endswith(identity, ".test"),
                    bind_data.items, None)
    ELSE LET bind == bind_data.members
         IN  KartonBind(identity, loads_opt(bind.info), bind.version.v,
                        bind.persistent.b, bind.filters.items,
                        get_service_version(bind))

\* A value of the hash: the serialized bind, tagged with history the code
\* never reads: w, the number of the register_bind call that wrote it (0 for
\* what the store held before).
Slot(data, w) == Some([data |-> data, w |-> w])

\* A plausible slip: the pipeline queued as HSET then HGET.
register_transaction_swapped(h, identity, slot) ==
    [old |-> slot, hash |-> [h EXCEPT ![identity] = slot]]

\* A plausible slip: the HGET's reply dropped.
register_transaction_blind(h, identity, slot) ==
    [old |-> None, hash |-> [h EXCEPT ![identity] = slot]]

\* register_bind's MULTI/EXEC transaction: HGET, then HSET.
register_transaction(h, identity, slot) ==
    [old |-> h[identity], hash |-> [h EXCEPT ![identity] = slot]]

\* register_bind: the transaction, then the old value decoded (a local step).
register_bind(p, bind) ==
    /\ pc[p] = "idle"
    /\ Len(written) < MaxRegister
    /\ written' = Append(written, bind)
    /\ LET w == Len(written) + 1
           r == register_transaction(binds, bind.identity,
                                     Slot(serialize_bind(bind), w))
       IN  /\ binds' = r.hash
           /\ priorOf' = Append(priorOf, IF r.old = None THEN -1 ELSE r.old[1].w)
           /\ pc' = [pc EXCEPT ![p] = "return"]
           /\ loc' = [loc EXCEPT ![p] =
                        [op |-> "register_bind", bind |-> bind, w |-> w,
                         old |-> r.old,
                         value |-> IF r.old = None THEN None
                                   ELSE Some(unserialize_bind(bind.identity,
                                                              r.old[1].data))]]
    /\ UNCHANGED <<dropped, notBinds>>

unregister_bind(p, identity) ==
    /\ pc[p] = "idle"
    /\ binds' = [binds EXCEPT ![identity] = None]
    /\ dropped' = IF binds[identity] = None THEN dropped
                  ELSE dropped \cup {<<identity, binds[identity][1].w>>}
    /\ UNCHANGED <<written, priorOf, pc, loc, notBinds>>

\* get_bind: HGET, then the value decoded; json.loads(None) raises TypeError.
get_bind(p, identity) ==
    /\ pc[p] = "idle"
    /\ pc' = [pc EXCEPT ![p] = "return"]
    /\ loc' = [loc EXCEPT ![p] =
                 [op |-> "get_bind", identity |-> identity,
                  raw |-> binds[identity],
                  raises |-> binds[identity] = None,
                  value |-> IF binds[identity] = None THEN None
                            ELSE Some(unserialize_bind(identity,
                                                       binds[identity][1].data))]]
    /\ UNCHANGED <<bindVars, notBinds>>

\* The filter lists services bind with.
FilterLists ==
    { <<>>, <<[type |-> "sample"]>>, <<[type |-> "sample"], [type |-> "config"]>> }

\* What a hash slot may hold when the backend connects: nothing, a 2.x bind
\* (a bare list of filters), or a bind written before service_version existed.
InitialSlots ==
    { None,
      Slot(JArr(<<[type |-> "sample"]>>), 0),
      Slot(JObj([info |-> JStr("classifier"),
                 version |-> JStr("4.4.0"),
                 filters |-> JArr(<<[type |-> "config"]>>),
                 persistent |-> JBool(TRUE)]), 0) }

\* The binds services register.
RegisteredBinds ==
    { KartonBind("consumer-A", Some("classifier"), "5.3.0", TRUE,
                 <<[type |-> "sample"]>>, Some("1.2.0")),
      KartonBind("consumer-A", None, "5.3.0", FALSE, <<>>, None),
      KartonBind("consumer-A.test", None, "5.3.0", FALSE,
                 <<[type |-> "sample"], [type |-> "config"]>>, Some("0.1")) }

InitBinds ==
    /\ binds \in [BindIdentities -> InitialSlots]
    /\ written = <<>>
    /\ priorOf = <<>>
    /\ dropped = {}
    /\ NoQueues /\ AtRest /\ NoCodec /\ NoAssigned
    /\ NoMetrics /\ NoStatus /\ NoLog

NextBinds ==
    \E p \in Procs :
        \/ \E b \in RegisteredBinds : register_bind(p, b)
        \/ \E i \in BindIdentities : unregister_bind(p, i)
        \/ \E i \in BindIdentities : get_bind(p, i)
        \/ Return(p)

SpecBinds == InitBinds /\ [][NextBinds]_vars

(***************************************************************************)
(* serialize_bind and unserialize_bind as functions: a bind is encoded,    *)
(* then the encoding is decoded under the bind's identity.                 *)
(***************************************************************************)
CodecIdentities == {"consumer-A", "consumer-A.test", ".test", "test"}

CodecBinds ==
    { KartonBind(i, info, v, pers, f, sv) :
        i \in CodecIdentities, info \in {None, Some("classifier")},
        v \in {"5.3.0", "2.x.x"}, pers \in BOOLEAN, f \in FilterLists,
        sv \in {None, Some("1.2.0")} }

InitCodec ==
    /\ \E b \in CodecBinds : codec = [stage |-> "bind", bind |-> b]
    /\ NoQueues /\ AtRest /\ NoBinds /\ NoAssigned
    /\ NoMetrics /\ NoStatus /\ NoLog

codec_serialize ==
    /\ codec.stage = "bind"
    /\ codec' = [stage |-> "wire", bind |-> codec.bind,
                 wire |-> serialize_bind(codec.bind)]
    /\ UNCHANGED <<queueVars, pc, loc, bindVars, assignVars, metricVars, statusVars, logVars>>

codec_unserialize ==
    /\ codec.stage = "wire"
    /\ codec' = [stage |-> "back", bind |-> codec.bind, wire |-> codec.wire,
                 out |-> unserialize_bind(codec.bind.identity, codec.wire)]
    /\ UNCHANGED <<queueVars, pc, loc, bindVars, assignVars, metricVars, statusVars, logVars>>

NextCodec == codec_serialize \/ codec_unserialize

SpecCodec == InitCodec /\ [][NextCodec]_vars

(***************************************************************************)
(* AssignmentTracker.                                                      *)
(***************************************************************************)
\* A task whose "receiver" header is None (or empty).
NoReceiver == ""

\* The tasks consumers check out: the fquid and the "receiver" header.
AssignedTasks ==
    { [fquid |-> f, receiver |-> r] : f \in Fquids, r \in Identities \cup {NoReceiver} }

\* Redis set commands.
SADD(set, member) == set \cup {member}

\* A plausible slip: the removal never reaching the store.
SREM_skipped(set, member) == set

SREM(set, member) == set \ {member}

\* SCARD
count_consumer_tasks(identity) == Cardinality(assigned[identity])

\* History of one assignment set: an assign, an unassign of the same task
\* right after it, or anything else.
AfterAssign(i, task) ==
    [op |-> "assign", fquid |-> task.fquid,
     pre |-> count_consumer_tasks(i), was |-> task.fquid \in assigned[i]]

AfterUnassign(i, task) ==
    IF lastOp[i].op = "assign" /\ lastOp[i].fquid = task.fquid
    THEN [lastOp[i] EXCEPT !.op = "assign_unassign"]
    ELSE [op |-> "other"]

\* A plausible slip: the receiverless branch of unassign copied into assign.
assign_task_to_consumer_silent(p, task) ==
    /\ pc[p] = "idle"
    /\ LET identity == task.receiver
       IN  IF identity = NoReceiver
           THEN /\ pc' = [pc EXCEPT ![p] = "return"]
                /\ loc' = [loc EXCEPT ![p] =
                             [op |-> "assign_task_to_consumer", task |-> task,
                              raises |-> None]]
                /\ UNCHANGED assignVars
           ELSE /\ assigned' = [assigned EXCEPT ![identity] = SADD(@, task.fquid)]
                /\ lastOp' = [lastOp EXCEPT ![identity] = AfterAssign(identity, task)]
                /\ UNCHANGED <<pc, loc>>
    /\ UNCHANGED notAssigned

\* assign_task_to_consumer: SADD, or ValueError for a task with no receiver.
assign_task_to_consumer(p, task) ==
    /\ pc[p] = "idle"
    /\ LET identity == task.receiver
       IN  IF identity = NoReceiver
           THEN /\ pc' = [pc EXCEPT ![p] = "return"]
                /\ loc' = [loc EXCEPT ![p] =
                             [op |-> "assign_task_to_consumer", task |-> task,
                              raises |-> Some("ValueError")]]
                /\ UNCHANGED assignVars
           ELSE /\ assigned' = [assigned EXCEPT ![identity] = SADD(@, task.fquid)]
                /\ lastOp' = [lastOp EXCEPT ![identity] = AfterAssign(identity, task)]
                /\ UNCHANGED <<pc, loc>>
    /\ UNCHANGED notAssigned

\* A plausible slip: the receiverless branch of assign copied into unassign.
unassign_task_from_consumer_raising(p, task) ==
    /\ pc[p] = "idle"
    /\ LET identity == task.receiver
       IN  IF identity = NoReceiver
           THEN /\ pc' = [pc EXCEPT ![p] = "return"]
                /\ loc' = [loc EXCEPT ![p] =
                             [op |-> "unassign_task_from_consumer", task |-> task,
                              raises |-> Some("ValueError")]]
                /\ UNCHANGED assignVars
           ELSE /\ assigned' = [assigned EXCEPT ![identity] = SREM(@, task.fquid)]
                /\ lastOp' = [lastOp EXCEPT ![identity] = AfterUnassign(identity, task)]
                /\ UNCHANGED <<pc, loc>>
    /\ UNCHANGED notAssigned

\* unassign_task_from_consumer: SREM, or a plain return for a task with no
\* receiver.
unassign_task_from_consumer(p, task) ==
    /\ pc[p] = "idle"
    /\ LET identity == task.receiver
       IN  IF identity = NoReceiver
           THEN /\ pc' = [pc EXCEPT ![p] = "return"]
                /\ loc' = [loc EXCEPT ![p] =
                             [op |-> "unassign_task_from_consumer", task |-> task,
                              raises |-> None]]
                /\ UNCHANGED assignVars
           ELSE /\ assigned' = [assigned EXCEPT ![identity] = SREM(@, task.fquid)]
                /\ lastOp' = [lastOp EXCEPT ![identity] = AfterUnassign(identity, task)]
                /\ UNCHANGED <<pc, loc>>
    /\ UNCHANGED notAssigned

InitAssigned ==
    /\ NoAssigned /\ NoQueues /\ AtRest /\ NoBinds /\ NoCodec
    /\ NoMetrics /\ NoStatus /\ NoLog

NextAssigned ==
    \E p \in Procs :
        \/ \E t \in AssignedTasks : assign_task_to_consumer(p, t)
        \/ \E t \in AssignedTasks : unassign_task_from_consumer(p, t)
        \/ Return(p)

SpecAssigned == InitAssigned /\ [][NextAssigned]_vars

\* unassign_tasks_from_consumers.  The tasks a collector hands over in one
\* list: two tasks of one receiver, one of another, and one with no receiver.
BulkTasks ==
    { t \in AssignedTasks :
        <<t.fquid, t.receiver>> \in { <<"r1:t1", "consumer-A">>, <<"r1:t2", "consumer-A">>,
                                      <<"r2:t3", "consumer-B">>, <<"r1:t1", NoReceiver>> } }

TaskLists == UNION { [1..n -> BulkTasks] : n \in 0..MaxBulk }

\* The keys of consumers in the order .items() yields them: the receivers in
\* the order they first appear in the list.
RECURSIVE Keys(_, _)
Keys(task_list, have) ==
    IF task_list = <<>> THEN <<>>
    ELSE LET identity == Head(task_list).receiver
         IN  IF identity = NoReceiver \/ identity \in have
             THEN Keys(Tail(task_list), have)
             ELSE <<identity>> \o Keys(Tail(task_list), have \cup {identity})

\* A plausible slip: grouping the whole list before anything is removed.
exceeded_never(group, chunk_size) == FALSE

\* "If exceeded chunk_size: remove during grouping".
exceeded(group, chunk_size) == Len(group) >= chunk_size

\* The first loop from task k + 1 on, up to its next srem call: the groups,
\* the number of tasks grouped, and the receiver whose group reached
\* chunk_size (None when the list ends first).
RECURSIVE Grouped(_, _, _, _)
Grouped(consumers, task_list, k, chunk_size) ==
    IF k = Len(task_list)
    THEN [consumers |-> consumers, k |-> k, full |-> None]
    ELSE LET task == task_list[k + 1]
             identity == task.receiver
         IN  IF identity = NoReceiver
             THEN Grouped(consumers, task_list, k + 1, chunk_size)
             ELSE LET added == [consumers EXCEPT ![identity] = Append(@, task.fquid)]
                  IN  IF exceeded(added[identity], chunk_size)
                      THEN [consumers |-> added, k |-> k + 1, full |-> Some(identity)]
                      ELSE Grouped(added, task_list, k + 1, chunk_size)

\* What Python writes for a list of strings: ['r1:t1', 'r1:t2'].
RECURSIVE Joined(_)
Joined(ids) ==
    IF ids = <<>> THEN ""
    ELSE IF Len(ids) = 1 THEN "'" \o ids[1] \o "'"
    ELSE "'" \o ids[1] \o "', " \o Joined(Tail(ids))

repr(ids) == "[" \o Joined(ids) \o "]"

\* srem(key, consumers[identity]) hands the list over as ONE value of the
\* command.  What the Redis client does with a value that is a list depends
\* on the client installed: it refuses the value (DataError), or it sends
\* the text of the list as the one member to remove.
\* The srem call of unassign_tasks_from_consumers, made with the list ids at
\* a point where the call's frame is l; then the frame is after.
srem_list(p, identity, ids, phase, l, after) ==
    \E client \in {"DataError", "one_value"} :
        LET call == [identity |-> identity, ids |-> ids, at |-> l.k, phase |-> phase,
                     sent |-> client # "DataError"]
        IN  IF client = "DataError"
            THEN /\ pc' = [pc EXCEPT ![p] = "return"]
                 /\ loc' = [loc EXCEPT ![p] =
                              [l EXCEPT !.issued = Append(@, call),
                                        !.raises = Some("DataError")]]
                 /\ UNCHANGED assignVars
            ELSE /\ assigned' = [assigned EXCEPT ![identity] = SREM(@, repr(ids))]
                 /\ lastOp' = [lastOp EXCEPT ![identity] = [op |-> "other"]]
                 /\ pc' = [pc EXCEPT ![p] = phase]
                 /\ loc' = [loc EXCEPT ![p] = [after EXCEPT !.issued = Append(@, call)]]

\* The call: one collector at a time.
unassign_tasks_from_consumers(p, task_list, chunk_size) ==
    /\ \A q \in Procs : pc[q] = "idle"
    /\ pc' = [pc EXCEPT ![p] = "grouping"]
    /\ loc' = [loc EXCEPT ![p] =
                 [op |-> "unassign_tasks_from_consumers", tasks |-> task_list,
                  chunk_size |-> chunk_size, k |-> 0, consumers |-> [i \in Identities |-> <<>>],
                  items |-> <<>>, issued |-> <<>>, before |-> assigned,
                  raises |-> None]]
    /\ UNCHANGED <<assignVars, notAssigned>>

\* The first loop up to its next srem call, or to the end of the list.
unassign_tasks_group(p) ==
    /\ pc[p] = "grouping"
    /\ LET l == loc[p]
           g == Grouped(l.consumers, l.tasks, l.k, l.chunk_size)
           at == [l EXCEPT !.consumers = g.consumers, !.k = g.k]
       IN  IF g.full = None
           THEN /\ pc' = [pc EXCEPT ![p] = "flushing"]
                /\ loc' = [loc EXCEPT ![p] = [at EXCEPT !.items = Keys(l.tasks, {})]]
                /\ UNCHANGED assignVars
           ELSE LET identity == g.full[1]
                IN  srem_list(p, identity, g.consumers[identity], "grouping", at,
                              [at EXCEPT !.consumers[identity] = <<>>])
    /\ UNCHANGED notAssigned

\* The second loop: one item of consumers.items() a step.
unassign_tasks_flush(p) ==
    /\ pc[p] = "flushing"
    /\ LET l == loc[p]
       IN  IF l.items = <<>>
           THEN /\ pc' = [pc EXCEPT ![p] = "return"]
                /\ UNCHANGED <<loc, assignVars>>
           ELSE LET identity == Head(l.items)
                    rest == [l EXCEPT !.items = Tail(@)]
                IN  IF l.consumers[identity] = <<>>
                    THEN /\ loc' = [loc EXCEPT ![p] = rest]
                         /\ UNCHANGED <<pc, assignVars>>
                    ELSE srem_list(p, identity, l.consumers[identity], "flushing", l, rest)
    /\ UNCHANGED notAssigned

\* The consumers hold their tasks when the collector runs.
InitBulk ==
    /\ assigned = [i \in Identities |->
                      IF i = "consumer-A" THEN {"r1:t1", "r1:t2"} ELSE {"r2:t3"}]
    /\ lastOp = [i \in Identities |-> [op |-> "none"]]
    /\ NoQueues /\ AtRest /\ NoBinds /\ NoCodec
    /\ NoMetrics /\ NoStatus /\ NoLog

NextBulk ==
    \E p \in Procs :
        \/ \E task_list \in TaskLists, chunk_size \in 1..MaxChunk :
               unassign_tasks_from_consumers(p, task_list, chunk_size)
        \/ unassign_tasks_group(p)
        \/ unassign_tasks_flush(p)
        \/ Return(p)

SpecBulk == InitBulk /\ [][NextBulk]_vars

(***************************************************************************)
(* MetricsCounter.  A Redis hash keeps its counters as decimal strings.    *)
(***************************************************************************)
Digits == "0123456789"

Digit(d) == SubSeq(Digits, d + 1, d + 1)

DigitValue(c) == (CHOOSE k \in 1..10 : SubSeq(Digits, k, k) = c) - 1

\* The decimal string Redis writes for an integer.
RECURSIVE str(_)
str(n) ==
    IF n < 0 THEN "-" \o str(0 - n)
    ELSE IF n < 10 THEN Digit(n)
    ELSE str(n \div 10) \o Digit(n % 10)

\* int(v) of get_metrics, and Redis's own reading of the stored string.
RECURSIVE int(_)
int(v) ==
    IF SubSeq(v, 1, 1) = "-" THEN 0 - int(SubSeq(v, 2, Len(v)))
    ELSE IF Len(v) = 1 THEN DigitValue(v)
    ELSE 10 * int(SubSeq(v, 1, Len(v) - 1)) + DigitValue(SubSeq(v, Len(v), Len(v)))

\* A plausible slip: the amount written over the counter (HSET).
HINCRBY_overwriting(h, field, increment) ==
    [h EXCEPT ![field] = Some(str(increment))]

\* HINCRBY: a field that does not exist counts from 0.
HINCRBY(h, field, increment) ==
    [h EXCEPT ![field] =
        Some(str((IF @ = None THEN 0 ELSE int(@[1])) + increment))]

\* HGETALL: the fields that exist.
HGETALL(h) ==
    [f \in { g \in DOMAIN h : h[g] # None } |-> h[f][1]]

\* A pipeline of HINCRBY commands, executed in order in one transaction.
RECURSIVE execute(_, _)
execute(h, commands) ==
    IF commands = <<>> THEN h
    ELSE execute(HINCRBY(h, Head(commands)[1], Head(commands)[2]), Tail(commands))

get_metrics(metric) ==
    LET all == HGETALL(metrics[metric])
    IN  [k \in DOMAIN all |-> int(all[k])]

\* The amount a sequence of commands adds to identity i.
RECURSIVE Amount(_, _)
Amount(commands, i) ==
    IF commands = <<>> THEN 0
    ELSE (IF Head(commands)[1] = i THEN Head(commands)[2] ELSE 0)
         + Amount(Tail(commands), i)

\* History: one more call, of the given form, with the amounts it asked for.
Issued(metric, commands, form) ==
    [issued EXCEPT !.calls = @ + 1,
                   !.forms = @ \cup {form},
                   !.sum[metric] =
                       [i \in Identities |-> @[i] + Amount(commands, i)]]

increment_metrics(p, metric, identity) ==
    /\ pc[p] = "idle"
    /\ issued.calls < MaxCalls
    /\ metrics' = [metrics EXCEPT ![metric] = HINCRBY(@, identity, 1)]
    /\ issued' = Issued(metric, <<<<identity, 1>>>>, "increment_metrics")
    /\ UNCHANGED <<pc, loc, notMetrics>>

\* increments: the dict's items, in the dict's order.
increment_multiple_metrics(p, metric, increments) ==
    /\ pc[p] = "idle"
    /\ issued.calls < MaxCalls
    /\ metrics' = [metrics EXCEPT ![metric] = execute(@, increments)]
    /\ issued' = Issued(metric, increments, "increment_multiple_metrics")
    /\ UNCHANGED <<pc, loc, notMetrics>>

increment_metrics_list(p, metric, identities) ==
    /\ pc[p] = "idle"
    /\ issued.calls < MaxCalls
    /\ LET commands == [j \in DOMAIN identities |-> <<identities[j], 1>>]
       IN  /\ metrics' = [metrics EXCEPT ![metric] = execute(@, commands)]
           /\ issued' = Issued(metric, commands, "increment_metrics_list")
    /\ UNCHANGED <<pc, loc, notMetrics>>

\* The amounts of an increment.
Amounts == (0 - 1)..MaxAmount

\* The dicts handed to increment_multiple_metrics: each identity at most once.
IncrementDicts ==
    { d \in UNION { [1..n -> Identities \X Amounts] : n \in 0..MaxList } :
        \A j \in DOMAIN d, k \in DOMAIN d : j # k => d[j][1] # d[k][1] }

\* The lists handed to increment_metrics_list: an identity may repeat.
IdentityLists == UNION { [1..n -> Identities] : n \in 0..MaxList }

\* The counters a store may hold when the run starts.
InitialCounters ==
    { h \in [KartonMetrics -> [Identities -> {None, Some("9")}]] :
        /\ h[TASK_CONSUMED]["consumer-B"] = None
        /\ h[TASK_PRODUCED]["consumer-A"] # None }

InitMetrics ==
    /\ metrics \in InitialCounters
    /\ issued = NoneIssued(metrics)
    /\ NoQueues /\ AtRest /\ NoBinds /\ NoCodec /\ NoAssigned
    /\ NoStatus /\ NoLog

\* The processes count the tasks they produce; the other kind's counters
\* sit in the store beside them.
NextMetrics ==
    \E p \in Procs :
        \/ \E i \in Identities : increment_metrics(p, TASK_PRODUCED, i)
        \/ \E d \in IncrementDicts : increment_multiple_metrics(p, TASK_PRODUCED, d)
        \/ \E l \in IdentityLists : increment_metrics_list(p, TASK_PRODUCED, l)

SpecMetrics == InitMetrics /\ [][NextMetrics]_vars

(***************************************************************************)
(* TaskStore: the status of a task.                                        *)
(***************************************************************************)
\* TaskState: three of the five states.
SPAWNED == "Spawned"
STARTED == "Started"
FINISHED == "Finished"
TaskState == {SPAWNED, STARTED, FINISHED}

\* The task whose status the processes follow, as its producer registered it.
StatusTask ==
    [fquid |-> "r1:t1", priority |-> HIGH, status |-> SPAWNED, last_update |-> 0]

\* SET of the task's key to the serialized task.
SET(store, task) == [store EXCEPT ![task.fquid] = Some(task)]

\* A plausible slip: the task written whether or not the status changes.
set_task_status_rewriting(p, status) ==
    /\ pc[p] = "idle"
    /\ obj[p] # None
    /\ LET task == [obj[p][1] EXCEPT !.status = status, !.last_update = now]
       IN  /\ obj' = [obj EXCEPT ![p] = Some(task)]
           /\ tasks' = SET(tasks, task)
    /\ pc' = [pc EXCEPT ![p] = "return"]
    /\ loc' = [loc EXCEPT ![p] = [op |-> "set_task_status", status |-> status]]
    /\ UNCHANGED <<now, notStatus>>

\* set_task_status, on the task object the process holds.
set_task_status(p, status) ==
    /\ pc[p] = "idle"
    /\ obj[p] # None
    /\ IF obj[p][1].status = status
       THEN UNCHANGED <<obj, tasks>>
       ELSE LET task == [obj[p][1] EXCEPT !.status = status, !.last_update = now]
            IN  /\ obj' = [obj EXCEPT ![p] = Some(task)]
                /\ tasks' = SET(tasks, task)
    /\ pc' = [pc EXCEPT ![p] = "return"]
    /\ loc' = [loc EXCEPT ![p] = [op |-> "set_task_status", status |-> status]]
    /\ UNCHANGED <<now, notStatus>>

\* The process takes the task as get_task returns it.
hold_task(p, task_fquid) ==
    /\ pc[p] = "idle"
    /\ obj' = [obj EXCEPT ![p] = get_task(tasks, task_fquid)]
    /\ UNCHANGED <<tasks, pc, loc, now, notStatus>>

\* Time passes.
Tick ==
    /\ now < MaxTime
    /\ now' = now + 1
    /\ UNCHANGED <<tasks, obj, pc, loc, notStatus>>

\* The task is registered and both processes have fetched it.
InitStatus ==
    /\ tasks = [f \in Fquids |-> IF f = StatusTask.fquid THEN Some(StatusTask) ELSE None]
    /\ obj = [p \in Procs |-> Some(StatusTask)]
    /\ now = 0
    /\ lists = [k \in ListKeys |-> <<>>]
    /\ clock = 0
    /\ seen = <<>>
    /\ blocked = <<>>
    /\ AtRest /\ NoBinds /\ NoCodec /\ NoAssigned /\ NoMetrics /\ NoLog

NextStatus ==
    \/ Tick
    \/ \E p \in Procs :
          \/ \E status \in TaskState : set_task_status(p, status)
          \/ hold_task(p, StatusTask.fquid)
          \/ obj[p] # None /\ delete_task(p, obj[p][1])
          \/ Return(p)

SpecStatus == InitStatus /\ [][NextStatus]_vars

(***************************************************************************)
(* LogChannel: Redis publish/subscribe with pattern subscriptions.         *)
(***************************************************************************)
KARTON_LOG_CHANNEL == "karton.log"

UpperCase == "ABCDEFGHIJKLMNOPQRSTUVWXYZ"

LowerCase == "abcdefghijklmnopqrstuvwxyz"

\* str.lower()
RECURSIVE lower(_)
lower(x) ==
    IF x = "" THEN ""
    ELSE LET c == SubSeq(x, 1, 1)
             up == { k \in 1..26 : SubSeq(UpperCase, k, k) = c }
         IN  (IF up = {} THEN c
              ELSE LET k == CHOOSE j \in up : TRUE IN SubSeq(LowerCase, k, k))
             \o lower(SubSeq(x, 2, Len(x)))

\* `x or "*"` of an optional string: None and "" both give "*".
OrStar(x) == IF x = None \/ x = Some("") THEN "*" ELSE x[1]

_log_channel(logger_name, level) ==
    KARTON_LOG_CHANNEL \o "." \o lower(OrStar(level)) \o "." \o OrStar(logger_name)

\* Redis's glob matching of a channel against a subscription pattern:
\* * is any run of characters, ? is any one character.
RECURSIVE stringmatch(_, _)
stringmatch(pattern, string) ==
    IF pattern = "" THEN string = ""
    ELSE LET c == SubSeq(pattern, 1, 1)
             rest == SubSeq(pattern, 2, Len(pattern))
         IN  IF c = "*"
             THEN \E k \in 0..Len(string) :
                      stringmatch(rest, SubSeq(string, k + 1, Len(string)))
             ELSE /\ string # ""
                  /\ c = "?" \/ c = SubSeq(string, 1, 1)
                  /\ stringmatch(rest, SubSeq(string, 2, Len(string)))

\* json.dumps and json.loads of a log record: a text and the value it spells.
dumps(value) == [json |-> value]

loads(text) == text.json

\* isinstance(x, str): of the values a record holds, the JSON texts.
IsStr(x) == DOMAIN x = {"json"}

\* The body consume_log yields for a message (lines 646-648).
Body(data) ==
    LET body == loads(data)
    IN  IF "task" \in DOMAIN body /\ IsStr(body.task)
        THEN [body EXCEPT !.task = loads(@)]
        ELSE body

\* Logger names, levels and filters of the services.
Loggers == {"classifier", "karton.classifier"}

Levels == {"INFO", "error"}

LoggerFilters == {None, Some("classifier")}

LevelFilters == {None, Some("Info")}

\* A log record, with a task as the log handler attaches it: serialized.
LogRecords == {[message |-> "done", task |-> dumps([uid |-> "t1"])]}

\* The channels records are published on and the patterns subscribed to.
Channels == { _log_channel(Some(l), Some(v)) : l \in Loggers, v \in Levels }

Patterns == { _log_channel(f, v) : f \in LoggerFilters, v \in LevelFilters }

\* _log_channel and stringmatch, worked out once for the names above.
ChannelOf == [l \in Loggers, v \in Levels |-> _log_channel(Some(l), Some(v))]

PatternOf == [f \in LoggerFilters, v \in LevelFilters |-> _log_channel(f, v)]

Matches == [pattern \in Patterns, channel \in Channels |-> stringmatch(pattern, channel)]

\* The clients Redis sends a message on the channel to.
Receivers(channel) ==
    { q \in Procs : subs[q] # None /\ Matches[subs[q][1], channel] }

\* PUBLISH: the message to every matching subscription; the number of them.
PUBLISH(channel, message) ==
    [inbox |-> [q \in Procs |->
                   IF q \in Receivers(channel)
                   THEN Append(inbox[q], message) ELSE inbox[q]],
     count |-> Cardinality(Receivers(channel))]

\* A plausible slip: the comparison of the receiver count off by one.
produce_log_counting_none(log_record, logger_name, level) ==
    /\ Len(sent) < MaxPublish
    /\ LET channel == ChannelOf[logger_name, level]
           n == Len(sent) + 1
           r == PUBLISH(channel, [n |-> n, data |-> dumps(log_record)])
       IN  /\ inbox' = r.inbox
           /\ sent' = Append(sent, [logger |-> logger_name, level |-> level,
                                    value |-> r.count >= 0])
    /\ UNCHANGED <<subs, pc, loc, notLog>>

\* produce_log.  The value returned is kept in the history of the call.
produce_log(log_record, logger_name, level) ==
    /\ Len(sent) < MaxPublish
    /\ LET channel == ChannelOf[logger_name, level]
           n == Len(sent) + 1
           r == PUBLISH(channel, [n |-> n, data |-> dumps(log_record)])
       IN  /\ inbox' = r.inbox
           /\ sent' = Append(sent, [logger |-> logger_name, level |-> level,
                                    value |-> r.count > 0])
    /\ UNCHANGED <<subs, pc, loc, notLog>>

\* consume_log, up to the loop: the pattern subscription (lines 639-640).
consume_log(p, logger_filter, level) ==
    /\ pc[p] = "idle"
    /\ subs' = [subs EXCEPT ![p] = Some(PatternOf[logger_filter, level])]
    /\ pc' = [pc EXCEPT ![p] = "poll"]
    /\ loc' = [loc EXCEPT ![p] =
                 [op |-> "consume_log", logger_filter |-> logger_filter,
                  level |-> level, arrived |-> None, items |-> <<>>]]
    /\ UNCHANGED <<inbox, sent, notLog>>

\* consume_log, one poll (lines 641-649): get_message hands over the oldest
\* unread message, or None once the timeout has passed (or for the
\* confirmation of the subscription); the generator runs to its next yield.
consume_log_poll(p) ==
    /\ pc[p] = "poll"
    /\ subs[p] # None
    /\ IF inbox[p] # <<>>
       THEN /\ inbox' = [inbox EXCEPT ![p] = Tail(@)]
            /\ pc' = [pc EXCEPT ![p] = "yield_none"]
            /\ loc' = [loc EXCEPT
                         ![p].arrived = Some(Head(inbox[p]).n),
                         ![p].items = <<Some(Body(Head(inbox[p]).data))>>]
       ELSE /\ UNCHANGED <<inbox, pc>>
            /\ loc' = [loc EXCEPT ![p].arrived = None, ![p].items = <<None>>]
    /\ UNCHANGED <<subs, sent, notLog>>

\* consume_log resumed after it yielded a body (line 650).
consume_log_resume(p) ==
    /\ pc[p] = "yield_none"
    /\ pc' = [pc EXCEPT ![p] = "poll"]
    /\ loc' = [loc EXCEPT ![p].items = Append(@, None)]
    /\ UNCHANGED <<subs, inbox, sent, notLog>>

\* The consumer drops the generator: the `with` block closes the pubsub
\* connection, and Redis forgets the subscription and what it had sent.
consume_log_close(p) ==
    /\ pc[p] \in {"poll", "yield_none"}
    /\ subs' = [subs EXCEPT ![p] = None]
    /\ inbox' = [inbox EXCEPT ![p] = <<>>]
    /\ pc' = [pc EXCEPT ![p] = "idle"]
    /\ loc' = [loc EXCEPT ![p] = Idle]
    /\ UNCHANGED <<sent, notLog>>

InitLog ==
    /\ NoLog
    /\ NoQueues /\ AtRest /\ NoBinds /\ NoCodec /\ NoAssigned
    /\ NoMetrics /\ NoStatus

NextLog ==
    \/ \E r \in LogRecords, l \in Loggers, v \in Levels : produce_log(r, l, v)
    \/ \E p \in Procs :
          \/ \E f \in LoggerFilters, v \in LevelFilters : consume_log(p, f, v)
          \/ consume_log_poll(p)
          \/ consume_log_resume(p)
          \/ consume_log_close(p)

SpecLog == InitLog /\ [][NextLog]_vars

(***************************************************************************)
(* Steps and history the claims speak about.                               *)
(***************************************************************************)
\* Process p's blocking pop returned an entry.
Popped(p) == pc[p] = "idle" /\ pc'[p] = "get_task"

\* Process p's blocking pop timed out.
TimedOut(p) ==
    pc[p] = "idle" /\ pc'[p] = "return" /\ loc'[p].op = "consume_routed_task"

\* Process p resolved the reference it popped.
Resolved(p) == pc[p] = "get_task" /\ pc'[p] = "return"

\* Process p's batch transaction ran.
Batched(p) ==
    pc[p] = "idle" /\ pc'[p] = "return" /\ loc'[p].op = "consume_queues_batch"

\* The entries of a list that were not produced for identity A.
NotFor(l, A) == SelectSeq(l, LAMBDA e : e.to # A)

\* Every entry the store holds that was produced for identity A.
Outstanding(A) ==
    { e \in UNION { Range(lists[k]) : k \in ListKeys } : e.to = A }

HasLegacy(A) == \E e \in Outstanding(A) : e.via = "legacy"

HasPriority(A) == \E e \in Outstanding(A) : e.via \in TaskPriority

Rank(via) == CASE via = HIGH -> 1 [] via = NORMAL -> 2 [] via = LOW -> 3

\* e is the oldest entry of the highest priority produced for A.
OldestOfHighest(e, A) ==
    /\ e \in Outstanding(A)
    /\ \A o \in Outstanding(A) :
         \/ Rank(e.via) < Rank(o.via)
         \/ (e.via = o.via /\ e.n <= o.n)

Min(a, b) == IF a <= b THEN a ELSE b

(***************************************************************************)
(* C1: consume_routed_task(A) pops only an entry held in one of A's own    *)
(* queues, returns the task of that entry or None, and leaves the entries  *)
(* of every other identity and of the unrouted queue where they were.      *)
(***************************************************************************)
C1_OwnQueuesOnly ==
    [][\A p \in Procs :
        /\ Popped(p) =>
             LET A == loc'[p].identity
                 e == loc'[p].item[1].data
             IN  /\ e.to = A
                 /\ \E k \in ListKeys :
                       /\ lists[k] # <<>>
                       /\ Head(lists[k]) = e
                       /\ lists'[k] = Tail(lists[k])
                 /\ \A k \in ListKeys : NotFor(lists'[k], A) = NotFor(lists[k], A)
        /\ TimedOut(p) => lists' = lists
        /\ Resolved(p) =>
             /\ lists' = lists
             /\ loc'[p].value # None =>
                  loc'[p].value[1].fquid = loc[p].item[1].data.fquid
      ]_vars

\* A consumer returns one of its own tasks while another identity's queue and
\* the unrouted queue hold entries.
C1_Witness ==
    \E p \in Procs :
        /\ pc[p] = "return"
        /\ loc[p].op = "consume_routed_task"
        /\ loc[p].value # None
        /\ loc[p].item[1].data.via \in TaskPriority
        /\ lists[KARTON_TASKS_QUEUE] # <<>>
        /\ \E B \in Identities \ {loc[p].identity} : HasPriority(B)

(***************************************************************************)
(* C2: with the identity's legacy queue empty and the task registered,     *)
(* consume_routed_task pops the oldest entry of the highest priority that  *)
(* was produced for the identity, and returns the task stored for it.      *)
(***************************************************************************)
C2_PriorityThenFifo ==
    [][\A p \in Procs :
        /\ (Popped(p) /\ ~HasLegacy(loc'[p].identity)) =>
              OldestOfHighest(loc'[p].item[1].data, loc'[p].identity)
        /\ (Resolved(p) /\ tasks[loc[p].item[1].data.fquid] # None) =>
              loc'[p].value = tasks[loc[p].item[1].data.fquid]
      ]_vars

\* A HIGH task produced after a NORMAL or LOW one is returned while the older
\* entry still waits.
C2_Witness ==
    \E p \in Procs :
        /\ pc[p] = "return"
        /\ loc[p].op = "consume_routed_task"
        /\ loc[p].value # None
        /\ loc[p].value[1].priority = HIGH
        /\ loc[p].item[1].data.via = HIGH
        /\ \E o \in Outstanding(loc[p].identity) :
              o.via \in {NORMAL, LOW} /\ o.n < loc[p].item[1].data.n

(***************************************************************************)
(* C3, as claimed: the legacy queue is consulted last (a priority entry is *)
(* popped whenever one waits, a legacy entry only when none does).         *)
(***************************************************************************)
C3_LegacyLast ==
    [][\A p \in Procs :
        (Popped(p) /\ HasLegacy(loc'[p].identity) /\ HasPriority(loc'[p].identity))
            => loc'[p].item[1].data.via \in TaskPriority
      ]_vars

(***************************************************************************)
(* C3, amended: the legacy queue is consulted first (a legacy entry is     *)
(* popped whenever one waits, a priority entry only when none does).       *)
(***************************************************************************)
C3_LegacyFirst ==
    [][\A p \in Procs :
        (Popped(p) /\ HasLegacy(loc'[p].identity))
            => loc'[p].item[1].data.via = "legacy"
      ]_vars

\* A legacy entry was popped while a priority entry of the identity waits.
C3_Witness ==
    \E p \in Procs :
        /\ pc[p] = "get_task"
        /\ loc[p].item[1].data.via = "legacy"
        /\ HasPriority(loc[p].identity)

(***************************************************************************)
(* C4: consume_queues_batch(queue, max_count) returns the first            *)
(* min(max_count, len) entries of the queue, removes them, and leaves the  *)
(* rest in order.                                                          *)
(***************************************************************************)
C4_BatchExact ==
    [][\A p \in Procs :
        Batched(p) =>
            LET before == lists[loc'[p].queue]
                k == Min(loc'[p].max_count, Len(before))
            IN  /\ loc'[p].value = SubSeq(before, 1, k)
                /\ lists'[loc'[p].queue] = SubSeq(before, k + 1, Len(before))
      ]_vars

\* The same, for max_count >= 1 only.
C4_BatchExactPositive ==
    [][\A p \in Procs :
        (Batched(p) /\ loc'[p].max_count >= 1) =>
            LET before == lists[loc'[p].queue]
                k == Min(loc'[p].max_count, Len(before))
            IN  /\ loc'[p].value = SubSeq(before, 1, k)
                /\ lists'[loc'[p].queue] = SubSeq(before, k + 1, Len(before))
      ]_vars

(***************************************************************************)
(* C5: no entry of the queue is returned by two consume_queues_batch       *)
(* calls, and no entry leaves the queue without being returned.            *)
(***************************************************************************)
C5_NoOverlap ==
    \A n \in DOMAIN seen :
        /\ seen[n] <= 1
        /\ (\A e \in Range(lists[KARTON_TASKS_QUEUE]) : e.n # n) => seen[n] = 1

(***************************************************************************)
(* Steps and history of the bind registry.                                 *)
(***************************************************************************)
\* Process p's register_bind transaction ran.
Registered(p) ==
    pc[p] = "idle" /\ pc'[p] = "return" /\ loc'[p].op = "register_bind"

\* Process p's get_bind read the hash.
Got(p) == pc[p] = "idle" /\ pc'[p] = "return" /\ loc'[p].op = "get_bind"

\* The register_bind calls made so far for identity i.
WritesTo(i) == { k \in DOMAIN written : written[k].identity = i }

Latest(ks) == CHOOSE k \in ks : \A o \in ks : o <= k

\* Identities that end with the reserved suffix ".test".
TestIdentities == {"consumer-A.test", ".test"}

(***************************************************************************)
(* C6: register_bind returns the bind that occupied the identity's slot    *)
(* right before the call (None for an empty slot), and a get_bind that     *)
(* follows it with no other writer in between returns the bind registered. *)
(***************************************************************************)
C6_RegisterThenGet ==
    [][\A p \in Procs :
        /\ Registered(p) =>
             LET i == loc'[p].bind.identity
                 out == loc'[p].value
             IN  IF WritesTo(i) = {}
                 THEN /\ (binds[i] = None) <=> (out = None)
                      /\ out # None => out[1].identity = i
                 ELSE IF <<i, Latest(WritesTo(i))>> \in dropped
                 THEN out = None
                 ELSE out = Some(written[Latest(WritesTo(i))])
        /\ Got(p) =>
             LET i == loc'[p].identity
             IN  (WritesTo(i) # {} /\ <<i, Latest(WritesTo(i))>> \notin dropped)
                    => /\ loc'[p].raises = FALSE
                       /\ loc'[p].value = Some(written[Latest(WritesTo(i))])
      ]_vars

\* One process got back, from register_bind, a bind registered before; the
\* other reads, with get_bind, the bind the first has just registered.
C6_Witness ==
    \E p \in Procs, q \in Procs :
        /\ pc[p] = "return" /\ loc[p].op = "register_bind"
        /\ loc[p].value # None
        /\ loc[p].old[1].w >= 1
        /\ loc[p].value[1] # loc[p].bind
        /\ pc[q] = "return" /\ loc[q].op = "get_bind"
        /\ loc[q].value = Some(loc[p].bind)

(***************************************************************************)
(* C7: no register_bind write is lost: a bind written is either still the  *)
(* stored value of its identity or was returned as the prior value by      *)
(* exactly one other register_bind call, and no two calls got back the     *)
(* same written bind (a write removed by unregister_bind aside).           *)
(***************************************************************************)
C7_NoLostWrite ==
    \A w \in DOMAIN written :
        LET i == written[w].identity
            stored == binds[i] # None /\ binds[i][1].w = w
            readers == { r \in DOMAIN priorOf : priorOf[r] = w }
        IN  /\ w \notin readers
            /\ Cardinality(readers) <= 1
            /\ \A r \in readers : written[r].identity = i
            /\ ~(stored /\ readers # {})
            /\ <<i, w>> \notin dropped => (stored \/ readers # {})

\* Two processes are inside register_bind for one identity at once, and one
\* got back what the other wrote.
C7_Witness ==
    \E p \in Procs, q \in Procs :
        /\ p # q
        /\ pc[p] = "return" /\ loc[p].op = "register_bind"
        /\ pc[q] = "return" /\ loc[q].op = "register_bind"
        /\ loc[q].old # None
        /\ loc[q].old[1].w = loc[p].w
        /\ loc[q].value = Some(loc[p].bind)

(***************************************************************************)
(* C8: get_bind of a slot that holds a bare JSON list F returns a bind     *)
(* with filters F, persistent unless the identity ends with ".test", and   *)
(* neither info nor service_version.                                       *)
(***************************************************************************)
C8_LegacyDecode ==
    \A p \in Procs :
        (/\ pc[p] = "return" /\ loc[p].op = "get_bind"
         /\ loc[p].raw # None
         /\ loc[p].raw[1].data.j = "array")
        => /\ loc[p].value # None
           /\ loc[p].value[1].identity = loc[p].identity
           /\ loc[p].value[1].filters = loc[p].raw[1].data.items
           /\ loc[p].value[1].persistent = (loc[p].identity \notin TestIdentities)
           /\ loc[p].value[1].info = None
           /\ loc[p].value[1].service_version = None

\* Both kinds of identity read a 2.x bind: one persistent, one not.
C8_Witness ==
    \E p \in Procs, q \in Procs :
        /\ pc[p] = "return" /\ loc[p].op = "get_bind"
        /\ pc[q] = "return" /\ loc[q].op = "get_bind"
        /\ loc[p].raw # None /\ loc[p].raw[1].data.j = "array"
        /\ loc[q].raw # None /\ loc[q].raw[1].data.j = "array"
        /\ loc[p].identity \in TestIdentities
        /\ loc[q].identity \notin TestIdentities
        /\ loc[p].value[1].persistent = FALSE
        /\ loc[q].value[1].persistent = TRUE

(***************************************************************************)
(* C9: unserialize_bind(b.identity, serialize_bind(b)) = b for every       *)
(* non-legacy bind b.                                                      *)
(***************************************************************************)
C9_RoundTrip == codec.stage = "back" => codec.out = codec.bind

\* A bind with no service_version and no info went through both functions.
C9_Witness ==
    /\ codec.stage = "back"
    /\ codec.wire.j = "object"
    /\ codec.bind.service_version = None
    /\ codec.bind.info = None
    /\ codec.bind.persistent = FALSE

(***************************************************************************)
(* C10, as claimed: an assign followed at once by the unassign of the same *)
(* task leaves the receiver's count at its value before the assign.        *)
(***************************************************************************)
C10_CountRestored ==
    \A i \in Identities :
        lastOp[i].op = "assign_unassign" => count_consumer_tasks(i) = lastOp[i].pre

(***************************************************************************)
(* C10, amended: the count is restored when the task was not in the        *)
(* receiver's set before the assign, and is one lower when it was.         *)
(***************************************************************************)
C10_CountRestoredIfNew ==
    \A i \in Identities :
        lastOp[i].op = "assign_unassign" =>
            count_consumer_tasks(i) =
                IF lastOp[i].was THEN lastOp[i].pre - 1 ELSE lastOp[i].pre

\* The pair ran on a set that held other tasks: once for a task the set did
\* not hold, once for a task it held already.
C10_Witness ==
    \E i \in Identities, k \in Identities :
        /\ lastOp[i].op = "assign_unassign" /\ ~lastOp[i].was /\ lastOp[i].pre >= 1
        /\ lastOp[k].op = "assign_unassign" /\ lastOp[k].was /\ lastOp[k].pre >= 2

(***************************************************************************)
(* Steps of the assignment tracker the claims speak about.                 *)
(***************************************************************************)
\* Process p called assign / unassign with a task that has no receiver.
AssignedReceiverless(p) ==
    /\ pc[p] = "idle" /\ pc'[p] = "return"
    /\ loc'[p].op = "assign_task_to_consumer"
    /\ loc'[p].task.receiver = NoReceiver

UnassignedReceiverless(p) ==
    /\ pc[p] = "idle" /\ pc'[p] = "return"
    /\ loc'[p].op = "unassign_task_from_consumer"
    /\ loc'[p].task.receiver = NoReceiver

\* Nothing of the other processes moved.
OnlyMoved(p) ==
    \A q \in Procs \ {p} : pc'[q] = pc[q] /\ loc'[q] = loc[q]

(***************************************************************************)
(* C11, as claimed: whatever assign and unassign calls ran, an fquid is a  *)
(* member of at most one identity's assignment set.                        *)
(***************************************************************************)
C11_AtMostOneSet ==
    \A f \in Fquids :
        Cardinality({ i \in Identities : f \in assigned[i] }) <= 1

Deleted(f) == tasks[f] # None /\ tasks'[f] = None

(***************************************************************************)
(* C15: when consume_routed_task resolves a popped reference whose record  *)
(* is gone from the store, it returns None, the value of a poll that timed *)
(* out, and no error, whatever deletes and pushes ran around the pop.      *)
(***************************************************************************)
C15_DanglingPopReturnsNone ==
    [][\A p \in Procs :
          Resolved(p) /\ tasks[loc[p].item[1].data.fquid] = None =>
              loc'[p].value = None]_vars

\* A process came back with None for an entry it had popped, while the
\* other process came back from a poll that timed out.
C15_Witness ==
    \E p \in Procs, q \in Procs :
        /\ pc[p] = "return" /\ loc[p].op = "consume_routed_task"
        /\ loc[p].item # None /\ loc[p].value = None
        /\ pc[q] = "return" /\ loc[q].op = "consume_routed_task"
        /\ loc[q].item = None /\ loc[q].value = None

(***************************************************************************)
(* C17: a delete of a task's record changes no queue and no assignment     *)
(* set, and no other task's record: the references to the deleted task are *)
(* where they were.                                                        *)
(***************************************************************************)
C17_DeleteOnlyRecord ==
    [][\A f \in Fquids :
          Deleted(f) =>
              /\ lists' = lists
              /\ assigned' = assigned
              /\ \A g \in Fquids \ {f} : tasks'[g] = tasks[g]]_vars

\* A deleted task is still referred to by an unrouted entry, a per-priority
\* entry and an assignment set; another deleted task by a legacy entry.
C17_Witness ==
    /\ \E f \in Fquids :
         /\ tasks[f] = None
         /\ \E j \in DOMAIN lists[KARTON_TASKS_QUEUE] :
                lists[KARTON_TASKS_QUEUE][j].fquid = f
         /\ \E i \in Identities, pr \in TaskPriority :
                \E j \in DOMAIN lists[get_queue_name(i, pr)] :
                    lists[get_queue_name(i, pr)][j].fquid = f
         /\ \E i \in Identities : f \in assigned[i]
    /\ \E f \in Fquids, i \in Identities :
         /\ tasks[f] = None
         /\ \E j \in DOMAIN lists[i] : lists[i][j].fquid = f

(***************************************************************************)
(* C12: whatever the order of the increments and however they were split   *)
(* between the three increment methods and the processes, the snapshot of  *)
(* a metric gives each identity its starting count plus the sum of the     *)
(* amounts issued for it.                                                  *)
(***************************************************************************)
C12_SnapshotIsSum ==
    \A m \in KartonMetrics, i \in Identities :
        LET snapshot == get_metrics(m)
            start == IF issued.start[m][i] = None THEN 0 ELSE int(issued.start[m][i][1])
        IN  IF i \in DOMAIN snapshot
            THEN snapshot[i] = start + issued.sum[m][i]
            ELSE issued.start[m][i] = None /\ issued.sum[m][i] = 0

\* The three methods have all added to one counter that did not start at 0,
\* and another counter, which did not exist, has gone below 0.
C12_Witness ==
    /\ issued.forms = {"increment_metrics", "increment_multiple_metrics",
                       "increment_metrics_list"}
    /\ \E m \in KartonMetrics, i \in Identities :
          /\ issued.start[m][i] # None
          /\ issued.sum[m][i] >= 3
          /\ \E k \in Identities :
                /\ issued.start[m][k] = None
                /\ k \in DOMAIN get_metrics(m)
                /\ get_metrics(m)[k] < 0

\* Process p called set_task_status.
StatusSet(p) ==
    pc[p] = "idle" /\ pc'[p] = "return" /\ loc'[p].op = "set_task_status"

(***************************************************************************)
(* C16: set_task_status with the status the task object already has writes *)
(* nothing to the store and leaves the object as it is; with another       *)
(* status it sets the object's status, sets its last_update to the time of *)
(* the call, and stores the object, so that get_task returns it.           *)
(***************************************************************************)
C16_SetStatus ==
    [][\A p \in Procs :
          StatusSet(p) =>
              IF loc'[p].status = obj[p][1].status
              THEN tasks' = tasks /\ obj' = obj
              ELSE /\ obj'[p][1].status = loc'[p].status
                   /\ obj'[p][1].last_update = now
                   /\ get_task(tasks', obj[p][1].fquid) = obj'[p]
                   /\ get_task(tasks', obj[p][1].fquid)[1].status = loc'[p].status
                   /\ \A q \in Procs \ {p} : obj'[q] = obj[q]]_vars

\* One process has come back from a call that changed nothing, on an object
\* older than the stored task; the other from a call that stored a new
\* status at a later time.
C16_Witness ==
    \E p \in Procs, q \in Procs :
        /\ pc[p] = "return" /\ loc[p].op = "set_task_status"
        /\ loc[p].status = SPAWNED /\ obj[p] = Some(StatusTask)
        /\ pc[q] = "return" /\ loc[q].op = "set_task_status"
        /\ loc[q].status = FINISHED /\ obj[q][1].status = FINISHED
        /\ obj[q][1].last_update > 0
        /\ tasks[StatusTask.fquid] = obj[q]

(***************************************************************************)
(* Steps of the log channel the claims speak about.                        *)
(***************************************************************************)
\* A record was published; the history of the call.
Published == Len(sent') = Len(sent) + 1

Publication == sent'[Len(sent')]

\* The subscribers whose pattern matches the channel of a publication.
Listening(e) ==
    { q \in Procs :
        /\ subs[q] # None
        /\ Matches[subs[q][1], ChannelOf[e.logger, e.level]] }

\* Redis sent subscriber q one more message.
SentTo(q) == Len(inbox'[q]) = Len(inbox[q]) + 1

(***************************************************************************)
(* C18: produce_log returns TRUE exactly when a subscriber with a matching *)
(* pattern is subscribed as the record is sent; a record sent with no such *)
(* subscriber reaches no inbox, then or later: a new subscriber starts     *)
(* with nothing, and every message a subscriber holds or reads is one that *)
(* was sent with a subscriber listening.                                   *)
(***************************************************************************)
C18_PublishReturn ==
    [][/\ Published =>
            /\ Publication.value = (Listening(Publication) # {})
            /\ \A q \in Procs : SentTo(q) <=> q \in Listening(Publication)
       /\ ~Published => \A q \in Procs : ~SentTo(q)
       /\ \A q \in Procs : subs[q] = None /\ subs'[q] # None => inbox'[q] = <<>>
       /\ \A q \in Procs :
            /\ \A j \in DOMAIN inbox'[q] : sent'[inbox'[q][j].n].value
            /\ pc'[q] = "yield_none" => sent'[loc'[q].arrived[1]].value]_vars

\* A record was lost; a subscriber whose pattern matches its channel came
\* later and has read the next record, for which produce_log returned TRUE.
C18_Witness ==
    /\ Len(sent) = 2
    /\ ~sent[1].value /\ sent[2].value
    /\ \E q \in Procs :
          /\ pc[q] = "yield_none" /\ loc[q].arrived = Some(2)
          /\ Matches[subs[q][1], ChannelOf[sent[1].logger, sent[1].level]]

(***************************************************************************)
(* C19, as claimed: each poll of consume_log yields exactly one item, the  *)
(* decoded record when a record arrived and None when none did.            *)
(***************************************************************************)
C19_OneItemPerPoll ==
    \A p \in Procs :
        pc[p] \in {"poll", "yield_none"} /\ loc[p].items # <<>> =>
            /\ Len(loc[p].items) = 1
            /\ loc[p].arrived = None <=> loc[p].items[1] = None

(***************************************************************************)
(* C20, as claimed: a record published while a subscriber is subscribed is *)
(* sent to it exactly when its logger filter is unset or equal to the      *)
(* record's logger, and its level is unset or equal to the record's level  *)
(* without regard to case.                                                 *)
(***************************************************************************)
C20_FilteredDelivery ==
    [][Published =>
          \A q \in Procs :
              subs[q] # None =>
                  (SentTo(q) <=>
                      /\ \/ loc[q].logger_filter = None
                         \/ loc[q].logger_filter[1] = Publication.logger
                      /\ \/ loc[q].level = None
                         \/ lower(loc[q].level[1]) = lower(Publication.level))]_vars

(***************************************************************************)
(* C22: get_queue_names(identity) is the list of the identity itself, then *)
(* its high, normal and low queue, and consume_routed_task pops the head   *)
(* of the first queue of that list that is not empty.                      *)
(***************************************************************************)
C22_QueueNamesOrder ==
    [][/\ \A i \in Identities :
            get_queue_names(i) =
                << i, "karton.queue.high:" \o i,
                   "karton.queue.normal:" \o i, "karton.queue.low:" \o i >>
       /\ \A p \in Procs :
            Popped(p) =>
                LET i == loc'[p].identity
                    names == << i, "karton.queue.high:" \o i,
                                "karton.queue.normal:" \o i, "karton.queue.low:" \o i >>
                    first == CHOOSE j \in 1..4 :
                                 /\ lists[names[j]] # <<>>
                                 /\ \A k \in 1..(j - 1) : lists[names[k]] = <<>>
                IN  /\ loc'[p].item[1].queue = names[first]
                    /\ loc'[p].item[1].data = Head(lists[names[first]])
                    /\ lists' = [lists EXCEPT ![names[first]] = Tail(@)]]_vars

\* One process has popped from an identity's normal queue while its low
\* queue holds an entry, the other from a legacy queue.
C22_Witness ==
    \E p \in Procs, q \in Procs :
        /\ pc[p] = "get_task"
        /\ loc[p].item[1].queue = "karton.queue.normal:" \o loc[p].identity
        /\ lists["karton.queue.low:" \o loc[p].identity] # <<>>
        /\ pc[q] = "get_task"
        /\ loc[q].item[1].queue = loc[q].identity

\* Where a queue entry is: the consumers that hold it, its places in lists.
Holders(e) ==
    { p \in Procs :
        /\ pc[p] \in {"get_task", "return"}
        /\ loc[p].op = "consume_routed_task"
        /\ loc[p].item # None
        /\ loc[p].item[1].data = e }

Places(e) ==
    UNION { { <<k, j>> : j \in { n \in DOMAIN lists[k] : lists[k][n] = e } } :
            k \in ListKeys }

(***************************************************************************)
(* C26: an entry pushed once is in one place: it waits once in one queue,  *)
(* or one consume_routed_task call has it and no queue holds it any more,  *)
(* however many processes consume for the same identity at once.           *)
(***************************************************************************)
C26_PoppedOnce ==
    \A p \in Procs :
        (pc[p] \in {"get_task", "return"} /\ loc[p].op = "consume_routed_task"
         /\ loc[p].item # None) =>
            LET e == loc[p].item[1].data
            IN  /\ Holders(e) = {p}
                /\ Places(e) = {}

\* Both processes consume for one identity and hold an entry each.
C26_Witness ==
    /\ \A p \in Procs : pc[p] = "get_task"
    /\ loc["p1"].identity = loc["p2"].identity
    /\ loc["p1"].item[1].data.n # loc["p2"].item[1].data.n
    /\ loc["p1"].item[1].data.via = loc["p2"].item[1].data.via

(***************************************************************************)
(* C21: a consume_routed_task call blocked on empty queues returns: None   *)
(* when its timeout elapses with the queues still empty, and, when a task  *)
(* is produced to one of its queues while it is blocked, the entry goes to *)
(* the blocked call or to another consumer, never stays in the queue       *)
(* beside a blocked call, and the call that got it returns that task.      *)
(***************************************************************************)
C21_BlockedCallReturns ==
    /\ [][\A p \in Procs :
            /\ (pc[p] = "blpop" /\ pc'[p] # "blpop") =>
                  \/ /\ pc'[p] = "return"
                     /\ loc'[p].item = None /\ loc'[p].value = None
                  \/ /\ pc'[p] = "get_task"
                     /\ clock' = clock + 1
                     /\ loc'[p].item[1].data.n = clock'
                     /\ loc'[p].item[1].data.to = loc[p].identity
            /\ pc'[p] = "blpop" =>
                  \A j \in 1..4 : lists'[get_queue_names(loc'[p].identity)[j]] = <<>>
       ]_vars
    /\ \A p \in Procs :
          pc[p] = "blpop" ~> (pc[p] = "return" /\ loc[p].op = "consume_routed_task")
    /\ \A p \in Procs, f \in Fquids :
          (pc[p] = "get_task" /\ loc[p].item[1].data.fquid = f) ~>
              (pc[p] = "return" /\ loc[p].value # None /\ loc[p].value[1].fquid = f)

\* One call has come back with the task produced while it was blocked, the
\* other with None after its timeout.
C21_Witness ==
    \E p \in Procs, q \in Procs :
        /\ pc[p] = "return" /\ loc[p].op = "consume_routed_task"
        /\ loc[p].waited /\ loc[p].value # None
        /\ pc[q] = "return" /\ loc[q].op = "consume_routed_task"
        /\ loc[q].waited /\ loc[q].item = None

\* The assignment sets after unassign_task_from_consumer on each task in turn.
RECURSIVE EachInTurn(_, _)
EachInTurn(sets, task_list) ==
    IF task_list = <<>> THEN sets
    ELSE LET t == Head(task_list)
         IN  EachInTurn(IF t.receiver = NoReceiver THEN sets
                        ELSE [sets EXCEPT ![t.receiver] = @ \ {t.fquid}],
                        Tail(task_list))

\* A process inside, or just back from, unassign_tasks_from_consumers.
InBulk(p) == pc[p] # "idle" /\ loc[p].op = "unassign_tasks_from_consumers"

\* C23: when unassign_tasks_from_consumers returns, the assignment sets are
\* what unassigning each task of the list in turn would have left (listed
\* tasks with a receiver gone from that receiver's set, receiverless tasks
\* skipped, nothing else removed), and no srem call carried more than
\* chunk_size ids.
C23_BulkAsEachInTurn ==
    \A p \in Procs :
        (InBulk(p) /\ pc[p] = "return") =>
            /\ assigned = EachInTurn(loc[p].before, loc[p].tasks)
            /\ \A j \in 1..Len(loc[p].issued) :
                   Len(loc[p].issued[j].ids) <= loc[p].chunk_size

StatusRank(status) ==
    CASE status = "Declared" -> 0
      [] status = SPAWNED -> 1
      [] status = STARTED -> 2
      [] status = FINISHED -> 3
      [] OTHER -> 4

\* C25: the stored status of a task never moves back in the order Declared,
\* Spawned, Started, Finished, unless it moves to Crashed.
C25_StatusMovesForward ==
    [][\A f \in Fquids :
          (tasks[f] # None /\ tasks'[f] # None) =>
              \/ tasks'[f][1].status = "Crashed"
              \/ StatusRank(tasks'[f][1].status) >= StatusRank(tasks[f][1].status)
      ]_vars

====
